---- MODULE Spec2Model ----
(***************************************************************************)
(* A model of validate-xsd-issues.py: the XSDValidator class, its three    *)
(* detectors (check_duplicates, check_version_in_filenames,                *)
(* check_unencoded_spaces) and print_report.                               *)
(*                                                                         *)
(* Text is a sequence of one-character strings.  A discovered file is a    *)
(* record: its base name, its bytes, whether open() succeeds, after how    *)
(* many decoded lines the text reader raises (-1: never), and what         *)
(* ET.parse makes of it.  A path is the file's index in xsd_files.         *)
(***************************************************************************)
EXTENDS Integers, Sequences, FiniteSets, TLC

VARIABLES xsd_files, pc, ran, duplicates, versioned, space_violations,
          stdout, ns_reads, exit_code

vars == <<xsd_files, pc, ran, duplicates, versioned, space_violations,
          stdout, ns_reads, exit_code>>

(***************************************************************************)
(* Bounds of the model.                                                    *)
(***************************************************************************)
MaxStem == 5

MaxBody == 5

MaxDupFiles == 6

MaxScanFiles == 2

MaxApiFiles == 2

MaxCount == 11

(***************************************************************************)
(* Program constants.                                                      *)
(***************************************************************************)
ChunkSize == 4096

HashPrefixLen == 12

DisplayLimit == 10

NoExit == -1

NeverFails == -1

(***************************************************************************)
(* Text helpers.                                                           *)
(***************************************************************************)
Min(a, b) == IF a < b THEN a ELSE b

Digits == {"0", "1", "2", "3", "4", "5", "6", "7", "8", "9"}

\* What \s matches among the characters the model uses.
Whitespace == {" ", "\t", "\n", "\r", "\f"}

Quotes == {"\"", "'"}

Separators == {"_", "-"}

\* The in operator of strings: t occurs in s as a contiguous substring.
Contains(s, t) ==
  \E i \in 1..(Len(s) - Len(t) + 1) : SubSeq(s, i, i + Len(t) - 1) = t

RECURSIVE Repeat(_, _)
Repeat(s, n) == IF n <= 0 THEN <<>> ELSE s \o Repeat(s, n - 1)

\* All sequences over S of length at most n.
SeqsUpTo(S, n) == UNION {[1..k -> S] : k \in 0..n}

\* A line written to standard output: its kind t, the position k of the
\* finding it shows (0: none), a number n, a path p (0: none) and a text s.
Line(t, k, n, p, s) == [t |-> t, k |-> k, n |-> n, p |-> p, s |-> s]

Text(t) == Line(t, 0, 0, 0, <<>>)

XsdSuffix == <<".", "x", "s", "d">>

SchemaLocationWord ==
  <<"s", "c", "h", "e", "m", "a", "L", "o", "c", "a", "t", "i", "o", "n">>

(***************************************************************************)
(* compute_file_hash: the file is read in chunks of ChunkSize bytes and    *)
(* every chunk is fed to the digest.  SHA-256 is modelled as a             *)
(* collision-free digest: the digest state is everything fed to it.        *)
(***************************************************************************)
RECURSIVE Sha256Update(_, _, _)
Sha256Update(bytes, pos, state) ==
  IF pos > Len(bytes) THEN state
  ELSE Sha256Update(bytes, pos + ChunkSize,
                    state \o SubSeq(bytes, pos, Min(pos + ChunkSize - 1, Len(bytes))))

compute_file_hash(f) == Sha256Update(f.bytes, 1, <<>>)

(***************************************************************************)
(* get_target_namespace: ET.parse and root.get('targetNamespace', ''),     *)
(* every Exception turned into ''.                                         *)
(***************************************************************************)
\* A variant that hands the parser's error text back instead of the empty text.
get_target_namespace_ErrorText(f) ==
  IF ~f.readable \/ ~f.xml.ok THEN <<"?">>
  ELSE IF f.xml.has THEN f.xml.tns ELSE <<>>

get_target_namespace(f) ==
  IF ~f.readable \/ ~f.xml.ok THEN <<>>
  ELSE IF f.xml.has THEN f.xml.tns ELSE <<>>

(***************************************************************************)
(* check_duplicates.  hash_to_files is a dict in insertion order: a        *)
(* sequence of [h, files] entries.  An unreadable file makes open() raise  *)
(* out of the loop.                                                        *)
(***************************************************************************)
AddFile(map, h, p) ==
  IF \E k \in 1..Len(map) : map[k].h = h
  THEN [k \in 1..Len(map) |->
          IF map[k].h = h THEN [map[k] EXCEPT !.files = Append(@, p)] ELSE map[k]]
  ELSE Append(map, [h |-> h, files |-> <<p>>])

RECURSIVE HashLoop(_, _, _)
HashLoop(files, i, map) ==
  IF i > Len(files) THEN map
  ELSE HashLoop(files, i + 1, AddFile(map, compute_file_hash(files[i]), i))

\* A variant in which a failed read is skipped instead of raised.
HashRaises_Swallowed(files) == FALSE

HashRaises(files) == \E i \in 1..Len(files) : ~files[i].readable

\* A variant with the comparison off by one.
IsDuplicateSet_OffByOne(entry) == Len(entry.files) > 0

IsDuplicateSet(entry) == Len(entry.files) > 1

check_duplicates(files) == SelectSeq(HashLoop(files, 1, <<>>), IsDuplicateSet)

(***************************************************************************)
(* check_version_in_filenames: re.search of [_\-]v?\d+\.\d+ (IGNORECASE)   *)
(* in the base name.                                                       *)
(***************************************************************************)
RECURSIVE DigitRunEnd(_, _)
\* The index after the longest run of digits of s that starts at i.
DigitRunEnd(s, i) ==
  IF i <= Len(s) /\ s[i] \in Digits THEN DigitRunEnd(s, i + 1) ELSE i

SeparatorAt(s, i) == i <= Len(s) /\ s[i] \in Separators

\* A variant without IGNORECASE.
VersionMatchEnd_CaseSensitive(s, i) ==
  IF ~SeparatorAt(s, i) THEN 0
  ELSE LET d  == IF i + 1 <= Len(s) /\ s[i + 1] = "v" THEN i + 2 ELSE i + 1
           e1 == DigitRunEnd(s, d)
           e2 == DigitRunEnd(s, e1 + 1)
       IN IF e1 > d /\ e1 <= Len(s) /\ s[e1] = "." /\ e2 > e1 + 1 THEN e2 ELSE 0

\* The index after the match of the pattern that starts at i, 0 when none.
VersionMatchEnd(s, i) ==
  IF ~SeparatorAt(s, i) THEN 0
  ELSE LET d  == IF i + 1 <= Len(s) /\ s[i + 1] \in {"v", "V"} THEN i + 2 ELSE i + 1
           e1 == DigitRunEnd(s, d)
           e2 == DigitRunEnd(s, e1 + 1)
       IN IF e1 > d /\ e1 <= Len(s) /\ s[e1] = "." /\ e2 > e1 + 1 THEN e2 ELSE 0

RECURSIVE VersionSearch(_, _)
\* <<the matched text>> of the leftmost match at or after i, <<>> when none.
VersionSearch(s, i) ==
  IF i > Len(s) THEN <<>>
  ELSE IF VersionMatchEnd(s, i) > 0 THEN <<SubSeq(s, i, VersionMatchEnd(s, i) - 1)>>
  ELSE VersionSearch(s, i + 1)

RECURSIVE VersionLoop(_, _)
VersionLoop(files, i) ==
  IF i > Len(files) THEN <<>>
  ELSE LET m == VersionSearch(files[i].name, 1)
       IN (IF m = <<>> THEN <<>> ELSE <<[p |-> i, version |-> m[1]]>>)
          \o VersionLoop(files, i + 1)

check_version_in_filenames(files) == VersionLoop(files, 1)

(***************************************************************************)
(* check_unencoded_spaces.  The text reader yields the lines of the file,   *)
(* each with its line terminator; findall of the schemaLocation pattern    *)
(* runs on every line.                                                     *)
(***************************************************************************)
\* The pattern, Q standing for the class of the two quote characters:
\*   schemaLocation \s* = \s* Q ( [^Q]* [^%] \s [^Q]* ) Q
\* A byte that is not valid UTF-8.
BadByte == "<ff>"

RECURSIVE LineEnd(_, _)
\* The index of the last character of the line of bytes that starts at i: its
\* terminator, or the last byte when the line has none.
LineEnd(bytes, i) ==
  IF i >= Len(bytes) \/ bytes[i] = "\n" THEN i ELSE LineEnd(bytes, i + 1)

RECURSIVE SplitLines(_, _)
\* The lines of bytes from position i on, each with its terminator.
SplitLines(bytes, i) ==
  IF i > Len(bytes) THEN <<>>
  ELSE <<SubSeq(bytes, i, LineEnd(bytes, i))>> \o SplitLines(bytes, LineEnd(bytes, i) + 1)

RECURSIVE WhitespaceRunEnd(_, _)
\* The index after the longest run of whitespace of s that starts at i.
WhitespaceRunEnd(s, i) ==
  IF i <= Len(s) /\ s[i] \in Whitespace THEN WhitespaceRunEnd(s, i + 1) ELSE i

RECURSIVE NextQuote(_, _)
\* The index of the first quote character of s at or after i, Len(s)+1 when none.
NextQuote(s, i) ==
  IF i > Len(s) \/ s[i] \in Quotes THEN i ELSE NextQuote(s, i + 1)

\* The positions p at which [^%]\s can match inside the group that starts at
\* g: p is at most the end of the first [^Q]* run, s[p] is not a percent sign,
\* s[p+1] is whitespace, and a closing quote follows the last [^Q]* run.
PairPositions(s, g) ==
  {p \in g..Min(NextQuote(s, g), Len(s)) :
     /\ s[p] # "%"
     /\ p + 1 <= Len(s)
     /\ s[p + 1] \in Whitespace
     /\ NextQuote(s, p + 2) <= Len(s)}

\* The match of the pattern that starts at i: [end |-> index of the closing
\* quote, value |-> the captured group], end = 0 when there is none.  The first
\* [^Q]* is greedy, so the regex engine takes the largest position.
SchemaLocationMatch(s, i) ==
  LET NoMatch == [end |-> 0, value |-> <<>>]
      w == i + Len(SchemaLocationWord)
      a == WhitespaceRunEnd(s, w)
      b == WhitespaceRunEnd(s, a + 1)
      g == b + 1
  IN IF w - 1 > Len(s) \/ SubSeq(s, i, w - 1) # SchemaLocationWord THEN NoMatch
     ELSE IF a > Len(s) \/ s[a] # "=" THEN NoMatch
     ELSE IF b > Len(s) \/ s[b] \notin Quotes THEN NoMatch
     ELSE IF PairPositions(s, g) = {} THEN NoMatch
     ELSE LET p == CHOOSE x \in PairPositions(s, g) :
                      \A y \in PairPositions(s, g) : y <= x
              e == NextQuote(s, p + 2)
          IN [end |-> e, value |-> SubSeq(s, g, e - 1)]

RECURSIVE FindAll(_, _)
\* findall: the captured groups of the non-overlapping matches, left to right.
FindAll(s, i) ==
  IF i > Len(s) THEN <<>>
  ELSE LET m == SchemaLocationMatch(s, i)
       IN IF m.end > 0 THEN <<m.value>> \o FindAll(s, m.end + 1)
          ELSE FindAll(s, i + 1)

IsViolation(match) == Contains(match, <<" ">>) /\ ~Contains(match, <<"%", "2", "0">>)

RECURSIVE LineViolations(_, _, _)
\* The violations of the matches of one line, from match k on.
LineViolations(p, line_num, matches) ==
  IF matches = <<>> THEN <<>>
  ELSE (IF IsViolation(Head(matches))
        THEN <<[p |-> p, line_num |-> line_num, location |-> Head(matches)]>>
        ELSE <<>>) \o LineViolations(p, line_num, Tail(matches))

ReadRaises(f) == ~f.readable \/ f.badAfter # NeverFails

\* The lines of f the reader yields before it stops or raises.
LinesRead(f) ==
  IF ~f.readable THEN <<>>
  ELSE IF f.badAfter = NeverFails THEN SplitLines(f.bytes, 1)
  ELSE SubSeq(SplitLines(f.bytes, 1), 1, Min(f.badAfter, Len(SplitLines(f.bytes, 1))))

RECURSIVE ScanLines(_, _, _)
\* The violations appended while the lines from line_num on of file p are read.
ScanLines(lines, p, line_num) ==
  IF line_num > Len(lines) THEN <<>>
  ELSE LineViolations(p, line_num, FindAll(lines[line_num], 1))
       \o ScanLines(lines, p, line_num + 1)

RECURSIVE ScanLoop(_, _)
ScanLoop(files, i) ==
  IF i > Len(files) THEN <<>>
  ELSE ScanLines(LinesRead(files[i]), i, 1) \o ScanLoop(files, i + 1)

check_unencoded_spaces(files) == ScanLoop(files, 1)

RECURSIVE WarningLoop(_, _)
\* The "Warning: Could not read" lines the except clause prints, in file order.
WarningLoop(files, i) ==
  IF i > Len(files) THEN <<>>
  ELSE (IF ReadRaises(files[i]) THEN <<Line("warning", 0, 0, i, <<>>)>>
        ELSE <<>>) \o WarningLoop(files, i + 1)

scan_warnings(files) == WarningLoop(files, 1)

(***************************************************************************)
(* print_report: what each part of it writes to standard output.           *)
(***************************************************************************)
HeaderLines ==
  <<Text("rule="), Text("title"), Text("rule="), Text("blank"),
    Text("issue331"), Text("rule-")>>

RECURSIVE MemberLines(_, _)
MemberLines(files, i) ==
  IF i > Len(files) THEN <<>>
  ELSE <<Line("dup_member", 0, 0, files[i], <<>>)>> \o MemberLines(files, i + 1)

\* The lines of duplicate set idx: its heading, the namespace of its first
\* file when that is not empty, its files, a blank line.
DuplicateSetLines(files, entry, idx) ==
  <<Line("dup_set", idx, Len(entry.files), 0,
         SubSeq(entry.h, 1, Min(HashPrefixLen, Len(entry.h))))>>
  \o (IF get_target_namespace(files[entry.files[1]]) # <<>>
      THEN <<Line("target_ns", idx, 0, entry.files[1],
                  get_target_namespace(files[entry.files[1]]))>>
      ELSE <<>>)
  \o MemberLines(entry.files, 1)
  \o <<Text("blank")>>

RECURSIVE DuplicateSetsLines(_, _, _)
DuplicateSetsLines(files, dups, idx) ==
  IF idx > Len(dups) THEN <<>>
  ELSE DuplicateSetLines(files, dups[idx], idx) \o DuplicateSetsLines(files, dups, idx + 1)

DuplicatesLines(files, dups) ==
  IF dups # <<>>
  THEN <<Line("found_dups", 0, Len(dups), 0, <<>>), Text("blank")>>
       \o DuplicateSetsLines(files, dups, 1)
  ELSE <<Text("no_dups"), Text("blank")>>

\* The paths get_target_namespace is called with, in call order.
NamespaceReads(dups) == [k \in 1..Len(dups) |-> dups[k].files[1]]

\* A variant that shows one item more.
Shown_OneMore(seq) == SubSeq(seq, 1, Min(DisplayLimit + 1, Len(seq)))

\* seq[:DisplayLimit]
Shown(seq) == SubSeq(seq, 1, Min(DisplayLimit, Len(seq)))

MoreLine(t, seq) ==
  IF Len(seq) > DisplayLimit
  THEN <<Line(t, 0, Len(seq) - DisplayLimit, 0, <<>>)>>
  ELSE <<>>

VersionsLines(found) ==
  IF found # <<>>
  THEN <<Line("found_versions", 0, Len(found), 0, <<>>), Text("blank")>>
       \o [k \in 1..Len(Shown(found)) |->
             Line("version_item", k, 0, found[k].p, found[k].version)]
       \o MoreLine("more_versions", found)
       \o <<Text("blank")>>
  ELSE <<Text("no_versions"), Text("blank")>>

\* Each shown violation takes two lines: path:line_num, then the location.
SpacesLines(found) ==
  IF found # <<>>
  THEN <<Line("found_spaces", 0, Len(found), 0, <<>>), Text("blank")>>
       \o [j \in 1..(2 * Len(Shown(found))) |->
             IF j % 2 = 1
             THEN Line("space_item", (j + 1) \div 2, found[(j + 1) \div 2].line_num,
                       found[(j + 1) \div 2].p, <<>>)
             ELSE Line("space_location", j \div 2, 0, 0, found[j \div 2].location)]
       \o MoreLine("more_spaces", found)
       \o <<Text("blank")>>
  ELSE <<Text("no_spaces"), Text("blank")>>

\* A variant that leaves the whitespace violations out of the total.
total_issues_WithoutSpaces(dups, vers, spaces) == Len(dups) + Len(vers)

total_issues(dups, vers, spaces) == Len(dups) + Len(vers) + Len(spaces)

\* A variant that counts what the sections displayed.
SummaryLines_DisplayedCounts(files, dups, vers, spaces) ==
  <<Text("rule="), Text("summary"), Text("rule="),
    Line("scanned", 0, Len(files), 0, <<>>),
    Line("count_dups", 0, Len(dups), 0, <<>>),
    Line("count_versions", 0, Min(DisplayLimit, Len(vers)), 0, <<>>),
    Line("count_spaces", 0, Min(DisplayLimit, Len(spaces)), 0, <<>>),
    Text("blank"),
    IF Len(dups) + Len(vers) + Len(spaces) > 0 THEN Text("failed") ELSE Text("passed")>>

SummaryLines(files, dups, vers, spaces) ==
  <<Text("rule="), Text("summary"), Text("rule="),
    Line("scanned", 0, Len(files), 0, <<>>),
    Line("count_dups", 0, Len(dups), 0, <<>>),
    Line("count_versions", 0, Len(vers), 0, <<>>),
    Line("count_spaces", 0, Len(spaces), 0, <<>>),
    Text("blank"),
    IF total_issues(dups, vers, spaces) > 0 THEN Text("failed") ELSE Text("passed")>>

ExitStatus(dups, vers, spaces) ==
  IF total_issues(dups, vers, spaces) > 0 THEN 1 ELSE 0

(***************************************************************************)
(* The steps of print_report, in program order.                            *)
(***************************************************************************)
PrintHeader ==
  /\ pc = "start"
  /\ stdout' = stdout \o HeaderLines
  /\ pc' = "dups"
  /\ UNCHANGED <<xsd_files, ran, duplicates, versioned, space_violations,
                 ns_reads, exit_code>>

\* check_duplicates raises out of print_report: nothing catches it.
HashingAborts ==
  /\ pc = "dups"
  /\ HashRaises(xsd_files)
  /\ pc' = "aborted"
  /\ UNCHANGED <<xsd_files, ran, duplicates, versioned, space_violations,
                 stdout, ns_reads, exit_code>>

DuplicatesSection ==
  /\ pc = "dups"
  /\ ~HashRaises(xsd_files)
  /\ duplicates' = check_duplicates(xsd_files)
  /\ ran' = ran \cup {"dup"}
  /\ ns_reads' = ns_reads \o NamespaceReads(duplicates')
  /\ stdout' = stdout \o DuplicatesLines(xsd_files, duplicates')
  /\ pc' = "versions"
  /\ UNCHANGED <<xsd_files, versioned, space_violations, exit_code>>

VersionsSection ==
  /\ pc = "versions"
  /\ versioned' = check_version_in_filenames(xsd_files)
  /\ ran' = ran \cup {"ver"}
  /\ stdout' = stdout \o <<Text("issue332"), Text("rule-")>>
                      \o VersionsLines(versioned')
  /\ pc' = "spaces"
  /\ UNCHANGED <<xsd_files, duplicates, space_violations, ns_reads, exit_code>>

SpacesSection ==
  /\ pc = "spaces"
  /\ space_violations' = check_unencoded_spaces(xsd_files)
  /\ ran' = ran \cup {"sp"}
  /\ stdout' = stdout \o <<Text("issue333"), Text("rule-")>>
                      \o scan_warnings(xsd_files)
                      \o SpacesLines(space_violations')
  /\ pc' = "summary"
  /\ UNCHANGED <<xsd_files, duplicates, versioned, ns_reads, exit_code>>

Summary ==
  /\ pc = "summary"
  /\ stdout' = stdout \o SummaryLines(xsd_files, duplicates, versioned, space_violations)
  /\ exit_code' = ExitStatus(duplicates, versioned, space_violations)
  /\ pc' = "done"
  /\ UNCHANGED <<xsd_files, ran, duplicates, versioned, space_violations, ns_reads>>

(***************************************************************************)
(* The detectors called on their own on a constructed validator.           *)
(***************************************************************************)
RunCheckDuplicates ==
  /\ pc = "api"
  /\ "dup" \notin ran
  /\ IF HashRaises(xsd_files)
     THEN pc' = "aborted" /\ UNCHANGED <<duplicates, ran>>
     ELSE /\ duplicates' = check_duplicates(xsd_files)
          /\ ran' = ran \cup {"dup"}
          /\ pc' = pc
  /\ UNCHANGED <<xsd_files, versioned, space_violations, stdout, ns_reads, exit_code>>

\* A variant whose loop consumes the file list.
RunCheckVersion_Consuming ==
  /\ pc = "api"
  /\ "ver" \notin ran
  /\ versioned' = check_version_in_filenames(xsd_files)
  /\ xsd_files' = <<>>
  /\ ran' = ran \cup {"ver"}
  /\ UNCHANGED <<pc, duplicates, space_violations, stdout, ns_reads, exit_code>>

RunCheckVersion ==
  /\ pc = "api"
  /\ "ver" \notin ran
  /\ versioned' = check_version_in_filenames(xsd_files)
  /\ ran' = ran \cup {"ver"}
  /\ UNCHANGED <<xsd_files, pc, duplicates, space_violations, stdout, ns_reads, exit_code>>

RunCheckSpaces ==
  /\ pc = "api"
  /\ "sp" \notin ran
  /\ space_violations' = check_unencoded_spaces(xsd_files)
  /\ stdout' = stdout \o scan_warnings(xsd_files)
  /\ ran' = ran \cup {"sp"}
  /\ UNCHANGED <<xsd_files, pc, duplicates, versioned, ns_reads, exit_code>>

(***************************************************************************)
(* Discovered files.                                                       *)
(***************************************************************************)
File(name, bytes, readable, badAfter, xml) ==
  [name |-> name, bytes |-> bytes, readable |-> readable,
   badAfter |-> badAfter, xml |-> xml]

Parsed(tns) == [ok |-> TRUE, has |-> TRUE, tns |-> tns]

NoAttribute == [ok |-> TRUE, has |-> FALSE, tns |-> <<>>]

Malformed == [ok |-> FALSE, has |-> FALSE, tns |-> <<>>]

XmlOutcomes == {Parsed(<<"u">>), Parsed(<<>>), NoAttribute, Malformed}

PlainName == <<"a">> \o XsdSuffix

VersionedName == <<"s", "_", "1", ".", "2">> \o XsdSuffix

ViolationLine == SchemaLocationWord \o <<"=", "\"", "a", " ", "b", "\"", "\n">>

RECURSIVE LinesBefore(_, _)
\* The number of line terminators of bytes before position i.
LinesBefore(bytes, i) ==
  IF i <= 1 THEN 0
  ELSE (IF bytes[i - 1] = "\n" THEN 1 ELSE 0) + LinesBefore(bytes, i - 1)

\* After how many yielded lines the text reader can raise on these bytes.  It
\* decodes a buffer at a time, so it raises when it reaches the buffer that
\* holds the first undecodable byte: after any number of the complete lines
\* that precede that byte, depending on where the buffers end.
DecodeFailurePoints(bytes) ==
  IF Contains(bytes, <<BadByte>>)
  THEN 0..LinesBefore(bytes, CHOOSE i \in 1..Len(bytes) :
                               bytes[i] = BadByte /\ \A j \in 1..(i - 1) : bytes[j] # BadByte)
  ELSE {NeverFails}

\* The state after XSDValidator(root) on the given files.
Constructed(files, at) ==
  /\ xsd_files = files
  /\ pc = at
  /\ ran = {}
  /\ duplicates = <<>>
  /\ versioned = <<>>
  /\ space_violations = <<>>
  /\ stdout = <<>>
  /\ ns_reads = <<>>
  /\ exit_code = NoExit

(***************************************************************************)
(* check_version_in_filenames on one file whose base name is any stem over *)
(* NameAlphabet followed by .xsd.                                          *)
(***************************************************************************)
NameAlphabet == {"s", "_", "-", "v", "V", "1", "."}

InitVersion ==
  \E stem \in SeqsUpTo(NameAlphabet, MaxStem) :
    Constructed(<<File(stem \o XsdSuffix, <<>>, TRUE, NeverFails, NoAttribute)>>, "api")

SpecVersion == InitVersion /\ [][RunCheckVersion]_vars

\* t is: an optional v (either case), digits, a period, digits.
IsDottedNumber(t) ==
  \E b \in 0..1 : \E m \in 1..Len(t) :
    /\ b = 1 => t[1] \in {"v", "V"}
    /\ b + m + 2 <= Len(t)
    /\ \A k \in (b + 1)..(b + m) : t[k] \in Digits
    /\ t[b + m + 1] = "."
    /\ \A k \in (b + m + 2)..Len(t) : t[k] \in Digits

\* t is a separator followed by a dotted number.
IsSeparatedVersion(t) ==
  Len(t) >= 1 /\ t[1] \in Separators /\ IsDottedNumber(Tail(t))

\* The fragment as the claim words it: the separator is optional.
IsOptionalSeparatorVersion(t) == IsDottedNumber(t) \/ IsSeparatedVersion(t)

\* The findings recorded for path i.
FindingsOf(i) == {k \in 1..Len(versioned) : versioned[k].p = i}

\* C3 as worded: with the separator optional, each file has at most one
\* finding, has one exactly when its base name contains a fragment, and the
\* finding is the leftmost fragment, taken as long as it goes.
C3_OptionalSeparator ==
  "ver" \in ran =>
    \A i \in 1..Len(xsd_files) :
      LET s == xsd_files[i].name
          Frag(a, b) == IsOptionalSeparatorVersion(SubSeq(s, a, b))
          Starts == {a \in 1..Len(s) : \E b \in a..Len(s) : Frag(a, b)}
      IN /\ Cardinality(FindingsOf(i)) <= 1
         /\ (FindingsOf(i) # {}) <=> (Starts # {})
         /\ \A k \in FindingsOf(i) :
              \E a \in Starts : \E b \in a..Len(s) :
                /\ \A a2 \in Starts : a <= a2
                /\ Frag(a, b)
                /\ \A b2 \in a..Len(s) : Frag(a, b2) => b2 <= b
                /\ versioned[k].version = SubSeq(s, a, b)

\* C3 amended: the leading separator (underscore or hyphen) is required.
\* Each file has at most one finding, has one exactly when its base name
\* contains separator, optional v of either case, digits, period, digits, and
\* the finding is the leftmost such fragment, taken as long as it goes.
C3_SeparatorRequired ==
  "ver" \in ran =>
    \A i \in 1..Len(xsd_files) :
      LET s == xsd_files[i].name
          Frag(a, b) == IsSeparatedVersion(SubSeq(s, a, b))
          Starts == {a \in 1..Len(s) : \E b \in a..Len(s) : Frag(a, b)}
      IN /\ Cardinality(FindingsOf(i)) <= 1
         /\ (FindingsOf(i) # {}) <=> (Starts # {})
         /\ \A k \in FindingsOf(i) :
              \E a \in Starts : \E b \in a..Len(s) :
                /\ \A a2 \in Starts : a <= a2
                /\ Frag(a, b)
                /\ \A b2 \in a..Len(s) : Frag(a, b2) => b2 <= b
                /\ versioned[k].version = SubSeq(s, a, b)

\* The name -V1.1.xsd gives one finding, the text -V1.1 with its hyphen and
\* its capital V.
C3_Witness ==
  /\ "ver" \in ran
  /\ xsd_files[1].name = <<"-", "V", "1", ".", "1">> \o XsdSuffix
  /\ versioned = <<[p |-> 1, version |-> <<"-", "V", "1", ".", "1">>]>>

(***************************************************************************)
(* check_unencoded_spaces on one readable file of one line: the word       *)
(* schemaLocation, an equals sign, then any text over LineAlphabet.        *)
(***************************************************************************)
LineAlphabet == {"\"", "'", " ", "%", "2", "0", "a"}

InitLine ==
  \E body \in SeqsUpTo(LineAlphabet, MaxBody) :
    Constructed(<<File(PlainName, SchemaLocationWord \o <<"=">> \o body \o <<"\n">>,
                       TRUE, NeverFails, NoAttribute)>>, "api")

SpecLine == InitLine /\ [][RunCheckSpaces]_vars

\* The values of the schemaLocation attribute assignments of a line: the
\* word, optional whitespace around the equals sign, an opening quote, and the
\* text up to the next occurrence of that same quote character.
AttributeValues(s) ==
  {SubSeq(s, g, e - 1) :
     <<g, e>> \in {ge \in (1..Len(s)) \X (1..Len(s)) :
        /\ ge[1] <= ge[2]
        /\ \E i \in 1..ge[1] :
             LET w == i + Len(SchemaLocationWord)
                 a == WhitespaceRunEnd(s, w)
                 b == WhitespaceRunEnd(s, a + 1)
             IN /\ w - 1 <= Len(s)
                /\ SubSeq(s, i, w - 1) = SchemaLocationWord
                /\ a <= Len(s) /\ s[a] = "="
                /\ b <= Len(s) /\ s[b] \in Quotes
                /\ ge[1] = b + 1
                /\ s[ge[2]] = s[b]
                /\ \A k \in ge[1]..(ge[2] - 1) : s[k] # s[b]}}

\* The locations reported for line line_num of path i.
ReportedAt(i, line_num) ==
  {space_violations[k].location :
     k \in {j \in 1..Len(space_violations) :
              space_violations[j].p = i /\ space_violations[j].line_num = line_num}}

FullyRead(f) == f.readable /\ f.badAfter = NeverFails

\* C4: for every readable file and every line of it, the values reported for
\* that line are exactly the values of its schemaLocation assignments that
\* hold a literal space and no %20, wherever the space stands.
C4_SpaceAnywhereReported ==
  "sp" \in ran =>
    \A i \in 1..Len(xsd_files) :
      FullyRead(xsd_files[i]) =>
        \A n \in 1..Len(SplitLines(xsd_files[i].bytes, 1)) :
          ReportedAt(i, n) =
            {v \in AttributeValues(SplitLines(xsd_files[i].bytes, 1)[n]) :
               Contains(v, <<" ">>) /\ ~Contains(v, <<"%", "2", "0">>)}

(***************************************************************************)
(* check_unencoded_spaces on a few files, some of which cannot be opened   *)
(* or hold a byte that is not UTF-8.                                       *)
(***************************************************************************)
ScanContents ==
  {<<>>,
   ViolationLine,
   <<"a", "\n">> \o ViolationLine,
   <<BadByte, "\n">>,
   ViolationLine \o <<BadByte, "\n">>,
   ViolationLine \o ViolationLine \o <<BadByte>>}

ScanFiles ==
  UNION {{File(PlainName, b, r, k, NoAttribute) :
            r \in BOOLEAN, k \in DecodeFailurePoints(b)} : b \in ScanContents}

InitScan ==
  \E files \in SeqsUpTo(ScanFiles, MaxScanFiles) : Constructed(files, "api")

SpecScan == InitScan /\ [][RunCheckSpaces]_vars

WarningsFor(i) == {k \in 1..Len(stdout) : stdout[k].t = "warning" /\ stdout[k].p = i}

\* C6: a file that cannot be opened, or whose decoding fails at any point of
\* the scan, gives one warning and no violation; the files that are read in
\* full still have their violations reported.
C6_FailedFileContributesNothing ==
  "sp" \in ran =>
    \A i \in 1..Len(xsd_files) :
      IF ReadRaises(xsd_files[i])
      THEN /\ Cardinality(WarningsFor(i)) = 1
           /\ \A k \in 1..Len(space_violations) : space_violations[k].p # i
      ELSE /\ WarningsFor(i) = {}
           /\ \A n \in 1..Len(SplitLines(xsd_files[i].bytes, 1)) :
                ReportedAt(i, n) =
                  {v \in AttributeValues(SplitLines(xsd_files[i].bytes, 1)[n]) :
                     Contains(v, <<" ">>) /\ ~Contains(v, <<"%", "2", "0">>)}

(***************************************************************************)
(* check_duplicates on lists of readable files of a few contents.          *)
(***************************************************************************)
DupContents == {<<"a">>, <<"b">>, <<"a", "a">>}

InitDup ==
  \E contents \in SeqsUpTo(DupContents, MaxDupFiles) :
    Constructed([i \in 1..Len(contents) |->
                   File(PlainName, contents[i], TRUE, NeverFails, NoAttribute)], "api")

SpecDup == InitDup /\ [][RunCheckDuplicates]_vars

\* The paths whose content is byte-identical to that of path i.
ContentClass(i) == {j \in 1..Len(xsd_files) : xsd_files[j].bytes = xsd_files[i].bytes}

GroupMembers(k) == {duplicates[k].files[m] : m \in 1..Len(duplicates[k].files)}

\* C2: the groups are exactly the content-equality classes of two or more
\* files: every group is one such class, listed without repetition; every
\* such class is exactly one group; no file is in two groups.
C2_GroupsAreContentClasses ==
  "dup" \in ran =>
    /\ \A k \in 1..Len(duplicates) :
         /\ Len(duplicates[k].files) >= 2
         /\ Cardinality(GroupMembers(k)) = Len(duplicates[k].files)
         /\ \E i \in 1..Len(xsd_files) : GroupMembers(k) = ContentClass(i)
    /\ \A i \in 1..Len(xsd_files) :
         Cardinality(ContentClass(i)) >= 2 =>
           Cardinality({k \in 1..Len(duplicates) : GroupMembers(k) = ContentClass(i)}) = 1
    /\ \A k1, k2 \in 1..Len(duplicates) :
         k1 # k2 => GroupMembers(k1) \cap GroupMembers(k2) = {}

\* Two groups, one of three files, and a file that is in none.
C2_Witness ==
  /\ "dup" \in ran
  /\ Len(duplicates) = 2
  /\ \E k \in 1..2 : Len(duplicates[k].files) = 3
  /\ \E i \in 1..Len(xsd_files) : Cardinality(ContentClass(i)) = 1

(***************************************************************************)
(* The three detectors called in any order on one validator.               *)
(***************************************************************************)
ApiContents == {<<"a", "\n">>, ViolationLine, ViolationLine \o <<BadByte>>}

ApiFiles ==
  UNION {{File(nm, b, r, k, NoAttribute) :
            nm \in {PlainName, VersionedName}, r \in BOOLEAN,
            k \in DecodeFailurePoints(b)} : b \in ApiContents}

InitApi ==
  \E files \in SeqsUpTo(ApiFiles, MaxApiFiles) : Constructed(files, "api")

NextApi == RunCheckDuplicates \/ RunCheckVersion \/ RunCheckSpaces

SpecApi == InitApi /\ [][NextApi]_vars

\* C10: no detector changes the file list or a file, and whatever ran before
\* it, each detector that has returned holds the result it gives on that list.
C10_AnyOrderSameResults ==
  [][/\ xsd_files' = xsd_files
     /\ "dup" \in ran' => duplicates' = check_duplicates(xsd_files)
     /\ "ver" \in ran' => versioned' = check_version_in_filenames(xsd_files)
     /\ "sp" \in ran' => space_violations' = check_unencoded_spaces(xsd_files)]_vars

\* All three have run and each has found something.
C10_Witness ==
  /\ ran = {"dup", "ver", "sp"}
  /\ duplicates # <<>>
  /\ versioned # <<>>
  /\ space_violations # <<>>

(***************************************************************************)
(* A run of the script: print_report on a validator whose file list holds  *)
(* g pairs of identical files, v files with a version in their name, one   *)
(* file with n offending lines and possibly one file that cannot be read.  *)
(***************************************************************************)
ReportCounts == {0, 1, DisplayLimit, MaxCount}

Faults == {"none", "unreadable", "undecodable"}

\* File j of 2g files: files j and j+g are identical, for j = 1..g.
PairedFiles(g, xml) ==
  [j \in 1..(2 * g) |->
     File(PlainName, Repeat(<<"a">>, ((j - 1) % g) + 1), TRUE, NeverFails, xml)]

VersionedFiles(v, xml) ==
  [j \in 1..v |-> File(VersionedName, Repeat(<<"b">>, j), TRUE, NeverFails, xml)]

OffendingFile(n, xml) ==
  <<File(PlainName, Repeat(ViolationLine, n), TRUE, NeverFails, xml)>>

FaultyFiles(fault, xml) ==
  IF fault = "unreadable"
  THEN {<<File(PlainName, <<"z">>, FALSE, NeverFails, xml)>>}
  ELSE IF fault = "undecodable"
  THEN {<<File(PlainName, ViolationLine \o <<BadByte>>, TRUE, k, xml)>> :
          k \in DecodeFailurePoints(ViolationLine \o <<BadByte>>)}
  ELSE {<<>>}

Init ==
  \E g \in ReportCounts, v \in ReportCounts, n \in ReportCounts :
    \E xml \in XmlOutcomes, fault \in Faults :
      \E faulty \in FaultyFiles(fault, xml) :
        Constructed(PairedFiles(g, xml) \o VersionedFiles(v, xml)
                      \o OffendingFile(n, xml) \o faulty, "start")

Next ==
  \/ PrintHeader
  \/ HashingAborts
  \/ DuplicatesSection
  \/ VersionsSection
  \/ SpacesSection
  \/ Summary

Spec == Init /\ [][Next]_vars

Empty(seq) == seq = <<>>

LinesOf(t) == SelectSeq(stdout, LAMBDA l : l.t = t)

\* C1: when print_report returns, the collections are what the detectors give
\* on the file list, and the status is 0 exactly when all three are empty, 1
\* otherwise.
C1_ExitZeroIffNoFindings ==
  pc = "done" =>
    /\ duplicates = check_duplicates(xsd_files)
    /\ versioned = check_version_in_filenames(xsd_files)
    /\ space_violations = check_unencoded_spaces(xsd_files)
    /\ exit_code \in {0, 1}
    /\ exit_code = 0 <=>
         (Empty(duplicates) /\ Empty(versioned) /\ Empty(space_violations))

\* Only the whitespace collection has members, and the status is 1.
C1_Witness ==
  /\ pc = "done"
  /\ exit_code = 1
  /\ Empty(duplicates) /\ Empty(versioned) /\ ~Empty(space_violations)

\* C5: the summary holds one line per count, and each count is the full size
\* of its collection (of the file list for the scanned files), whatever the
\* sections displayed.
C5_SummaryCountsAreFull ==
  pc = "done" =>
    /\ Len(LinesOf("scanned")) = 1
    /\ LinesOf("scanned")[1].n = Len(xsd_files)
    /\ Len(LinesOf("count_dups")) = 1
    /\ LinesOf("count_dups")[1].n = Len(check_duplicates(xsd_files))
    /\ Len(LinesOf("count_versions")) = 1
    /\ LinesOf("count_versions")[1].n = Len(check_version_in_filenames(xsd_files))
    /\ Len(LinesOf("count_spaces")) = 1
    /\ LinesOf("count_spaces")[1].n = Len(check_unencoded_spaces(xsd_files))
    /\ Len(duplicates) = Len(check_duplicates(xsd_files))
    /\ Len(versioned) = Len(check_version_in_filenames(xsd_files))
    /\ Len(space_violations) = Len(check_unencoded_spaces(xsd_files))

\* The versions section was cut short and the summary still counts them all.
C5_Witness ==
  /\ pc = "done"
  /\ Len(versioned) > DisplayLimit
  /\ Len(LinesOf("more_versions")) = 1
  /\ LinesOf("count_versions")[1].n = Len(versioned)

SomeUnreadable == \E i \in 1..Len(xsd_files) : ~xsd_files[i].readable

\* C7 as worded: when hashing raises, nothing has been written to standard
\* output and print_report has returned no status.
C7_NothingWrittenOnAbort ==
  pc = "aborted" => (exit_code = NoExit /\ stdout = <<>>)

\* C7 amended: a hashing error is caught nowhere, so a run with an unreadable
\* file never gets past check_duplicates; at the abort print_report has
\* returned no status, no detector has returned, and standard output holds the
\* report title and the heading of the duplicates section and nothing else.
C7_OnlyHeadingWrittenOnAbort ==
  /\ SomeUnreadable => pc \in {"start", "dups", "aborted"}
  /\ pc = "aborted" =>
       /\ SomeUnreadable
       /\ exit_code = NoExit
       /\ ran = {}
       /\ \A k \in 1..Len(stdout) : stdout[k].t \in {"rule=", "title", "blank", "issue331", "rule-"}
       /\ Len(LinesOf("title")) = 1
       /\ Len(LinesOf("issue331")) = 1

C7_Witness == pc = "aborted" /\ Len(xsd_files) > 1

\* The file list with every file parsing to a schema with a target namespace.
AllParsed(files) == [i \in 1..Len(files) |-> [files[i] EXCEPT !.xml = Parsed(<<"u">>)]]

\* C8: the namespace is read from the first file of each group, once per
\* group; a group whose first file does not parse, or has no such attribute,
\* gets no namespace line; and the groups, the summary counts and the status
\* are those of the same files when they all parse.
C8_ParseFailureChangesNothing ==
  /\ pc \in {"versions", "spaces", "summary", "done"} =>
       /\ ns_reads = [k \in 1..Len(duplicates) |-> duplicates[k].files[1]]
       /\ \A k \in 1..Len(duplicates) :
            /\ \A m \in 1..Len(duplicates[k].files) :
                 duplicates[k].files[1] <= duplicates[k].files[m]
            /\ (\/ ~xsd_files[duplicates[k].files[1]].xml.ok
                \/ ~xsd_files[duplicates[k].files[1]].xml.has) =>
                 \A j \in 1..Len(stdout) :
                   ~(stdout[j].t = "target_ns" /\ stdout[j].k = k)
       /\ duplicates = check_duplicates(AllParsed(xsd_files))
  /\ pc = "done" =>
       /\ LinesOf("count_dups")[1].n = Len(check_duplicates(AllParsed(xsd_files)))
       /\ LinesOf("count_versions")[1].n =
            Len(check_version_in_filenames(AllParsed(xsd_files)))
       /\ LinesOf("count_spaces")[1].n = Len(check_unencoded_spaces(AllParsed(xsd_files)))
       /\ exit_code = ExitStatus(check_duplicates(AllParsed(xsd_files)),
                                 check_version_in_filenames(AllParsed(xsd_files)),
                                 check_unencoded_spaces(AllParsed(xsd_files)))

\* A finished run with a duplicate group whose first file is not well-formed.
C8_Witness ==
  /\ pc = "done"
  /\ ~Empty(duplicates)
  /\ ~xsd_files[duplicates[1].files[1]].xml.ok
  /\ exit_code = 1

\* The items a section shows and its cut-off line, for the version findings.
VersionsShownCorrectly ==
  /\ LinesOf("version_item") =
       [k \in 1..Min(DisplayLimit, Len(versioned)) |->
          Line("version_item", k, 0, versioned[k].p, versioned[k].version)]
  /\ LinesOf("more_versions") =
       (IF Len(versioned) > DisplayLimit
        THEN <<Line("more_versions", 0, Len(versioned) - DisplayLimit, 0, <<>>)>>
        ELSE <<>>)

SpacesShownCorrectly ==
  /\ LinesOf("space_item") =
       [k \in 1..Min(DisplayLimit, Len(space_violations)) |->
          Line("space_item", k, space_violations[k].line_num, space_violations[k].p, <<>>)]
  /\ LinesOf("space_location") =
       [k \in 1..Min(DisplayLimit, Len(space_violations)) |->
          Line("space_location", k, 0, 0, space_violations[k].location)]
  /\ LinesOf("more_spaces") =
       (IF Len(space_violations) > DisplayLimit
        THEN <<Line("more_spaces", 0, Len(space_violations) - DisplayLimit, 0, <<>>)>>
        ELSE <<>>)

\* C9 as worded: every section, the duplicates section too, shows at most the
\* first ten members of its collection.
C9_EverySectionCutAtTen ==
  pc = "done" =>
    /\ VersionsShownCorrectly
    /\ SpacesShownCorrectly
    /\ Len(LinesOf("dup_set")) <= DisplayLimit

\* C9 amended: the versions and the unencoded-spaces sections show the first
\* ten members of their collection, in order, and a line with size - 10
\* exactly when it has more than ten; the duplicates section shows every
\* group, in order.
C9_TwoSectionsCutAtTen ==
  pc = "done" =>
    /\ VersionsShownCorrectly
    /\ SpacesShownCorrectly
    /\ Len(LinesOf("dup_set")) = Len(duplicates)
    /\ \A k \in 1..Len(duplicates) :
         /\ LinesOf("dup_set")[k].k = k
         /\ LinesOf("dup_set")[k].n = Len(duplicates[k].files)

\* All three collections have more than ten members.
C9_Witness ==
  /\ pc = "done"
  /\ Len(duplicates) > DisplayLimit
  /\ Len(versioned) > DisplayLimit
  /\ Len(space_violations) > DisplayLimit

====
